---- MODULE Spec2Model ----
(***************************************************************************)
(* A model of src/project.py: the restricted expression evaluator          *)
(* safe_eval and the edit state machine of ModernCalculator                *)
(* (on_button_click, toggle_sign).                                         *)
(*                                                                         *)
(* Text is a sequence of one-character strings.  A Python value is a       *)
(* record [t, n, x, nz, nm]:                                               *)
(*   t = "int"     the integer n                                           *)
(*   t = "float"   the decimal n / 10^x (x minimal); nz marks -0.0         *)
(*   t = "const"   the float constant named nm (pi, e), digits not kept    *)
(*   t = "tuple"   the empty tuple ()                                      *)
(*   t = "none"    None                                                    *)
(*   t = "ellipsis" the constant Ellipsis, written ...                     *)
(*   t = "func"    the callable bound to the name nm                       *)
(*   t = "exc"     evaluation raised the exception class nm                *)
(*   t = "unm"     a value the decimal arithmetic below cannot represent   *)
(*                 exactly (rounded floats, transcendental results)        *)
(***************************************************************************)
EXTENDS Integers, Sequences, FiniteSets, TLC

\* ---------------------------------------------------------------- bounds
\* longest buffer the append operation is allowed to grow
MaxLen == 3
\* most on_button_click calls in one run
MaxCalls == 6
\* longest free-form text handed to safe_eval in SpecEval
MaxEvalLen == 2
\* most fractional digits a modelled float may carry
MaxFrac == 6
\* largest magnitude of a modelled integer result of **
MaxPow == 100000

\* ------------------------------------------------------------ characters
Digit == {"0", "1", "2", "3", "4", "5", "6", "7", "8", "9"}

Lower ==
  {"a", "b", "c", "d", "e", "f", "g", "h", "i", "j", "k", "l", "m",
   "n", "o", "p", "q", "r", "s", "t", "u", "v", "w", "x", "y", "z"}

Upper ==
  {"A", "B", "C", "D", "E", "F", "G", "H", "I", "J", "K", "L", "M",
   "N", "O", "P", "Q", "R", "S", "T", "U", "V", "W", "X", "Y", "Z"}

\* str.isalpha on one character
isalpha(ch) == ch \in Lower \cup Upper

\* str.isspace on one character
isspace(ch) == ch \in {" ", "\t", "\n", "\r", "\f"}

\* allowed_chars with the comma pow(base, exp) needs added to it
allowed_chars_with_comma ==
  Digit \cup {"+", "-", "*", "/", "(", ")", ".", " ", "%", "e", ","}

\* line 25: allowed_chars = "0123456789+-*/(). %e"
allowed_chars == Digit \cup {"+", "-", "*", "/", "(", ")", ".", " ", "%", "e"}

\* line 27: the letters of 'sincotapewabsr'
allowed_letters == {"s", "i", "n", "c", "o", "t", "a", "p", "e", "w", "b", "r"}

DigitVal(ch) ==
  CASE ch = "0" -> 0 [] ch = "1" -> 1 [] ch = "2" -> 2 [] ch = "3" -> 3
    [] ch = "4" -> 4 [] ch = "5" -> 5 [] ch = "6" -> 6 [] ch = "7" -> 7
    [] ch = "8" -> 8 [] ch = "9" -> 9

DigitChar(d) ==
  CASE d = 0 -> "0" [] d = 1 -> "1" [] d = 2 -> "2" [] d = 3 -> "3"
    [] d = 4 -> "4" [] d = 5 -> "5" [] d = 6 -> "6" [] d = 7 -> "7"
    [] d = 8 -> "8" [] d = 9 -> "9"

\* ------------------------------------------------- character screening
\* lines 26-32: the loop over expr; "ok" or the class of the raised exception
RECURSIVE screen_from(_, _)
screen_from(expr, i) ==
  IF i > Len(expr) THEN "ok"
  ELSE LET ch == expr[i] IN
    IF isalpha(ch) /\ ch \notin allowed_letters THEN "ValueError"
    ELSE IF isalpha(ch) \/ isspace(ch) THEN screen_from(expr, i + 1)
    ELSE IF ch \notin allowed_chars THEN "ValueError"
    ELSE screen_from(expr, i + 1)

screen(expr) == screen_from(expr, 1)

\* ---------------------------------------------------------------- values
V(t, n, x, nz, nm) == [t |-> t, n |-> n, x |-> x, nz |-> nz, nm |-> nm]

IntV(n) == V("int", n, 0, FALSE, "")
TupleV == V("tuple", 0, 0, FALSE, "")
NoneV == V("none", 0, 0, FALSE, "")
EllipsisV == V("ellipsis", 0, 0, FALSE, "")
ConstV(nm) == V("const", 0, 0, FALSE, nm)
FuncV(nm) == V("func", 0, 0, FALSE, nm)
Exc(nm) == V("exc", 0, 0, FALSE, nm)
Unm == V("unm", 0, 0, FALSE, "")

RECURSIVE Pow10(_)
Pow10(k) == IF k = 0 THEN 1 ELSE 10 * Pow10(k - 1)

RECURSIVE Pow5(_)
Pow5(k) == IF k = 0 THEN 1 ELSE 5 * Pow5(k - 1)

Abs(n) == IF n < 0 THEN -n ELSE n

\* F applied to the value of v, with v evaluated once
Let(v, F(_)) == CHOOSE r \in {F(x) : x \in {v}} : TRUE

\* a float n / 10^x with trailing zeros of the fraction removed
RECURSIVE FloatV(_, _, _)
FloatV(n, x, nz) ==
  IF x > 0 /\ n % 10 = 0 THEN FloatV(n \div 10, x - 1, nz)
  ELSE V("float", n, x, nz /\ n = 0, "")

IsNum(v) == v.t \in {"int", "float"}

IsZero(v) == IsNum(v) /\ v.n = 0

\* the sign bit of a number (an int zero is positive)
IsNeg(v) == v.n < 0 \/ (v.t = "float" /\ v.n = 0 /\ v.nz)

\* the double holds exactly n / 10^x: the value is a dyadic rational
Exact(v) == v.t = "int" \/ (v.t = "float" /\ v.n % Pow5(v.x) = 0)

\* ------------------------------------------------------------ arithmetic
RECURSIVE GCD(_, _)
GCD(a, b) == IF b = 0 THEN a ELSE GCD(b, a % b)

Max(a, b) == IF a >= b THEN a ELSE b

\* Python's // on integers, b # 0: the floor of the quotient
FloorDiv(a, b) == IF b < 0 THEN (-a) \div (-b) ELSE a \div b

\* Python's % on integers, b # 0: the result has the sign of the divisor
Mod(a, b) == a - b * FloorDiv(a, b)

\* the numerators of a and b over their common power of ten
Scale(a, b) == Max(a.x, b.x)
Num(v, X) == v.n * Pow10(X - v.x)

\* a / b on exact operands, b # 0: the correctly rounded quotient prints as
\* the decimal p/q when that decimal terminates within MaxFrac digits
TrueDiv(a, b) ==
  LET X == Scale(a, b)
      A == Abs(Num(a, X))
      B == Abs(Num(b, X))
      g == GCD(A, B)
      p == A \div g
      q == B \div g
      ks == {k \in 0..MaxFrac : Pow10(k) % q = 0}
      neg == IsNeg(a) # IsNeg(b)
  IN IF ks = {} THEN Unm
     ELSE LET k == CHOOSE k \in ks : \A j \in ks : k <= j
              mag == p * (Pow10(k) \div q)
          IN V("float", IF neg THEN -mag ELSE mag, k, neg /\ mag = 0, "")

RECURSIVE IntPow(_, _)
IntPow(a, b) == IF b = 0 THEN 1 ELSE a * IntPow(a, b - 1)

RECURSIVE PowFits(_, _)
PowFits(a, b) ==
  b = 0 \/ (PowFits(a, b - 1) /\ Abs(IntPow(a, b - 1)) * Abs(a) <= MaxPow)

\* arithmetic on two ints
IntArith(op, a, b) ==
  CASE op = "+" -> IntV(a.n + b.n)
    [] op = "-" -> IntV(a.n - b.n)
    [] op = "*" -> IntV(a.n * b.n)
    [] op = "/" -> TrueDiv(a, b)
    [] op = "//" -> IntV(FloorDiv(a.n, b.n))
    [] op = "%" -> IntV(Mod(a.n, b.n))
    [] op = "**" -> IF b.n < 0 /\ a.n = 0 THEN Exc("ZeroDivisionError")
                    ELSE IF b.n >= 0 /\ b.n <= 32 /\ PowFits(a.n, b.n)
                         THEN IntV(IntPow(a.n, b.n))
                         ELSE Unm

\* arithmetic on two exact numbers, one of them a float
FloatArith(op, a, b) ==
  LET X == Scale(a, b)
      A == Num(a, X)
      B == Num(b, X)
  IN CASE op = "+" -> FloatV(A + B, X, IsNeg(a) /\ IsNeg(b))
       [] op = "-" -> FloatV(A - B, X, IsNeg(a) /\ ~IsNeg(b))
       [] op = "*" -> FloatV(a.n * b.n, a.x + b.x, IsNeg(a) # IsNeg(b))
       [] op = "/" -> TrueDiv(a, b)
       [] op = "//" -> FloatV(FloorDiv(A, B), 0, A = 0 /\ (IsNeg(a) # IsNeg(b)))
       [] op = "%" -> FloatV(Mod(A, B), X, IsNeg(b))
       [] op = "**" -> Unm

\* a binary operator applied to two evaluated operands
Arith(op, a, b) ==
  IF a.t = "tuple" /\ b.t = "tuple" /\ op = "+" THEN TupleV
  ELSE IF op = "*" /\ {a.t, b.t} = {"tuple", "int"} THEN TupleV
  ELSE IF ~(a.t \in {"int", "float", "const"} /\ b.t \in {"int", "float", "const"})
       THEN Exc("TypeError")
  ELSE IF op \in {"/", "//", "%"} /\ IsZero(b) THEN Exc("ZeroDivisionError")
  ELSE IF a.t = "const" \/ b.t = "const" THEN Unm
  ELSE IF a.t = "int" /\ b.t = "int" THEN IntArith(op, a, b)
  ELSE IF Exact(a) /\ Exact(b) THEN FloatArith(op, a, b)
  ELSE Unm

\* left operand first, then the right one, then the operation
BinOp(op, a, b) ==
  IF a.t \in {"exc", "unm"} THEN a
  ELSE IF b.t \in {"exc", "unm"} THEN b
  ELSE Arith(op, a, b)

\* unary - and +
UnaryOp(op, a) ==
  IF a.t \in {"exc", "unm"} THEN a
  ELSE IF a.t = "int" THEN IntV(IF op = "-" THEN -a.n ELSE a.n)
  ELSE IF a.t = "float"
       THEN IF op = "-" THEN V("float", -a.n, a.x, a.n = 0 /\ ~a.nz, "") ELSE a
  ELSE IF a.t = "const" THEN (IF op = "-" THEN Unm ELSE a)
  ELSE Exc("TypeError")

\* ------------------------------------------------------------- tokenizer
\* The lexical structure of a Python expression over the characters the
\* screening lets through.  A token is [k, s, v]: a literal with value v (a
\* number, or ... for Ellipsis), a name spelled s, or the operator s.
LitTok(v) == [k |-> "lit", s |-> "", v |-> v]
NameTok(s) == [k |-> "name", s |-> s, v |-> NoneV]
OpTok(s) == [k |-> "op", s |-> s, v |-> NoneV]

RECURSIVE Join(_)
Join(chars) == IF chars = <<>> THEN "" ELSE Head(chars) \o Join(Tail(chars))

\* the first index at or after i that holds no digit
RECURSIVE SkipDigits(_, _)
SkipDigits(text, i) ==
  IF i <= Len(text) /\ text[i] \in Digit THEN SkipDigits(text, i + 1) ELSE i

\* the first index at or after i that holds no letter or digit
RECURSIVE SkipName(_, _)
SkipName(text, i) ==
  IF i <= Len(text) /\ (isalpha(text[i]) \/ text[i] \in Digit)
  THEN SkipName(text, i + 1) ELSE i

RECURSIVE DigitsVal(_)
DigitsVal(ds) ==
  IF ds = <<>> THEN 0
  ELSE 10 * DigitsVal(SubSeq(ds, 1, Len(ds) - 1)) + DigitVal(ds[Len(ds)])

At(text, i, set) == i <= Len(text) /\ text[i] \in set

\* the value of the literal with integer digits ip, fraction digits fp and
\* decimal exponent ex
NumberValue(ip, fp, isFloat, ex) ==
  Let(DigitsVal(ip \o fp), LAMBDA n :
    IF ~isFloat
    THEN IF Len(ip) > 1 /\ ip[1] = "0" /\ n # 0 THEN [st |-> "syn", v |-> Unm]
         ELSE [st |-> "ok", v |-> IntV(n)]
    ELSE [st |-> "ok",
          v |-> IF ex >= Len(fp) THEN FloatV(n * Pow10(ex - Len(fp)), 0, FALSE)
                ELSE FloatV(n, Len(fp) - ex, FALSE)])

\* the number literal that starts at i: [st, v, e] with e the index after it
ScanNumber(text, i) ==
  Let(SkipDigits(text, i), LAMBDA a :
  Let(IF At(text, a, {"."}) THEN SkipDigits(text, a + 1) ELSE a, LAMBDA b :
  Let(IF At(text, b, {"e", "E"}) /\ At(text, b + 1, {"+", "-"}) THEN b + 2 ELSE b + 1, LAMBDA c :
  Let(SkipDigits(text, c), LAMBDA d :
    LET hasDot == At(text, a, {"."})
        expOK == At(text, b, {"e", "E"}) /\ d > c
        e == IF expOK THEN d ELSE b
        ip == SubSeq(text, i, a - 1)
        fp == IF hasDot THEN SubSeq(text, a + 1, b - 1) ELSE <<>>
        ex == IF expOK
              THEN (IF text[b + 1] = "-" THEN -1 ELSE 1) * DigitsVal(SubSeq(text, c, d - 1))
              ELSE 0
    IN IF ~hasDot /\ ~expOK /\ ip = <<"0">> /\ At(text, a, {"b", "o", "x", "B", "O", "X"})
       THEN [st |-> "unm", v |-> Unm, e |-> e]
       ELSE IF Len(ip) + Len(fp) > MaxFrac + 2 \/ (expOK /\ d - c > 2)
       THEN [st |-> "unm", v |-> Unm, e |-> e]
       ELSE Let(ex, LAMBDA exv :
            IF Len(ip) + Len(fp) + Abs(exv) > MaxFrac + 2
            THEN [st |-> "unm", v |-> Unm, e |-> e]
            ELSE Let(NumberValue(ip, fp, hasDot \/ expOK, exv), LAMBDA r :
                 [st |-> r.st, v |-> r.v, e |-> e]))))))

\* the tokens of text from index i on, appended to acc
RECURSIVE Tok(_, _, _)
Tok(text, i0, acc0) ==
  Let(<<i0, acc0>>, LAMBDA ia :
  LET i == ia[1]
      acc == ia[2]
  IN
  IF i > Len(text) THEN [st |-> "ok", toks |-> acc]
  ELSE LET ch == text[i] IN
    IF ch \in {" ", "\t"} THEN Tok(text, i + 1, acc)
    ELSE IF isspace(ch) THEN [st |-> "unm", toks |-> acc]
    ELSE IF ch \in Digit \/ (ch = "." /\ At(text, i + 1, Digit))
    THEN Let(ScanNumber(text, i), LAMBDA r :
         IF r.st # "ok" THEN [st |-> r.st, toks |-> acc]
         ELSE Tok(text, r.e, Append(acc, LitTok(r.v))))
    ELSE IF isalpha(ch)
    THEN Let(SkipName(text, i), LAMBDA j :
         Tok(text, j, Append(acc, NameTok(Join(SubSeq(text, i, j - 1))))))
    ELSE IF ch = "." /\ At(text, i + 1, {"."}) /\ At(text, i + 2, {"."})
    THEN Tok(text, i + 3, Append(acc, LitTok(EllipsisV)))
    ELSE IF ch \in {"*", "/"} /\ At(text, i + 1, {ch})
    THEN Tok(text, i + 2, Append(acc, OpTok(ch \o ch)))
    ELSE IF ch \in {"+", "-", "*", "/", "%", "(", ")", "."}
    THEN Tok(text, i + 1, Append(acc, OpTok(ch)))
    ELSE [st |-> "syn", toks |-> acc])

Tokenize(text) == Tok(text, 1, <<>>)

\* ------------------------------------------------------ name resolution
\* lines 8-17: the names safe_eval passes to eval as its globals
SAFE_FUNCTIONS ==
  [nm \in {"sqrt", "sin", "cos", "tan", "pi", "e", "pow", "abs"} |->
     IF nm \in {"pi", "e"} THEN ConstV(nm) ELSE FuncV(nm)]

\* line 35: eval adds __builtins__ to a globals dictionary that lacks the key;
\* these are the built-in names spelled with letters the screening accepts
builtins ==
  {"abs", "aiter", "ascii", "bin", "int", "isinstance", "iter", "oct", "open",
   "pow", "print", "repr", "set", "setattr", "str"}

\* reserved words spelled with letters the screening accepts
StatementKeywords == {"as", "assert", "await", "pass", "raise"}
OperatorKeywords == {"in", "is", "not", "or"}

\* line 35: a name is looked up in the locals {}, the globals, the builtins
Resolve(nm) ==
  IF nm \in DOMAIN SAFE_FUNCTIONS THEN SAFE_FUNCTIONS[nm]
  ELSE IF nm \in builtins THEN FuncV(nm)
  ELSE Exc("NameError")

\* the names an evaluation resolved outside SAFE_FUNCTIONS
Foreign(nm) == IF nm \notin DOMAIN SAFE_FUNCTIONS /\ nm \in builtins THEN {nm} ELSE {}

RECURSIVE ISqrt(_, _)
ISqrt(n, r) == IF r * r >= n THEN r ELSE ISqrt(n, r + 1)

\* a call of the function named nm with at most one argument (the comma
\* never passes the screening)
CallFunc(nm, args) ==
  LET a == args[1] IN
  IF nm \in {"sin", "cos", "tan", "sqrt"}
  THEN IF Len(args) = 0 \/ a.t \notin {"int", "float", "const"} THEN Exc("TypeError")
       ELSE IF a.t = "const" THEN Unm
       ELSE IF nm = "sqrt" /\ a.n < 0 THEN Exc("ValueError")
       ELSE IF IsZero(a)
            THEN (IF nm = "cos" THEN FloatV(1, 0, FALSE) ELSE V("float", 0, 0, IsNeg(a), ""))
       ELSE IF nm = "sqrt" /\ a.t = "int" /\ ISqrt(a.n, 0) * ISqrt(a.n, 0) = a.n
            THEN FloatV(ISqrt(a.n, 0), 0, FALSE)
       ELSE Unm
  ELSE IF nm = "abs"
  THEN IF Len(args) = 0 THEN Exc("TypeError")
       ELSE IF a.t = "int" THEN IntV(Abs(a.n))
       ELSE IF a.t = "float" THEN V("float", Abs(a.n), a.x, FALSE, "")
       ELSE IF a.t = "const" THEN a
       ELSE Exc("TypeError")
  ELSE IF nm = "pow" THEN Exc("TypeError")
  ELSE IF nm = "int"
  THEN IF Len(args) = 0 THEN IntV(0)
       ELSE IF a.t = "int" THEN a
       ELSE IF a.t = "float"
            THEN IntV((IF a.n < 0 THEN -1 ELSE 1) * (Abs(a.n) \div Pow10(a.x)))
       ELSE IF a.t = "const" THEN IntV(IF a.nm = "pi" THEN 3 ELSE 2)
       ELSE Exc("TypeError")
  ELSE IF nm = "print" THEN NoneV
  ELSE Unm

\* callee first, then the argument, then the call
Call(f, args) ==
  IF f.t \in {"exc", "unm"} THEN f
  ELSE IF Len(args) = 1 /\ args[1].t \in {"exc", "unm"} THEN args[1]
  ELSE IF f.t # "func" THEN Exc("TypeError")
  ELSE CallFunc(f.nm, args)

\* obj.name: no value of the model has an attribute spelled with the
\* letters the screening accepts
GetAttr(obj) == IF obj.t \in {"exc", "unm"} THEN obj ELSE Exc("AttributeError")

\* ---------------------------------------------------------------- parser
\* Python's expression grammar over the tokens above, evaluated as it is
\* parsed.  A result is [st, v, p, f]: st = "syn" for a syntax error (raised
\* before anything is evaluated), v the value or the exception, p the next
\* token, f the names resolved outside SAFE_FUNCTIONS.
R(st, v, p, f) == [st |-> st, v |-> v, p |-> p, f |-> f]
Syn == R("syn", Unm, 0, {})
UnmR == R("unm", Unm, 0, {})

IsOp(toks, p, ops) == p <= Len(toks) /\ toks[p].k = "op" /\ toks[p].s \in ops

\* evaluation stops at the first exception: what follows resolves nothing
Then(a, b) == IF a.v.t = "exc" THEN a.f ELSE a.f \cup b.f

RECURSIVE ParseArith(_, _)
RECURSIVE ArithRest(_, _)
RECURSIVE ParseTerm(_, _)
RECURSIVE TermRest(_, _)
RECURSIVE ParseFactor(_, _)
RECURSIVE ParsePower(_, _)
RECURSIVE Trailers(_, _)
RECURSIVE ParseAtom(_, _)

ParseArith(toks, p) ==
  Let(ParseTerm(toks, p), LAMBDA l :
    IF l.st # "ok" THEN l ELSE ArithRest(toks, l))

ArithRest(toks, l0) ==
  Let(l0, LAMBDA l :
    IF IsOp(toks, l.p, {"+", "-"})
    THEN Let(ParseTerm(toks, l.p + 1), LAMBDA r :
         IF r.st # "ok" THEN r
         ELSE ArithRest(toks, R("ok", BinOp(toks[l.p].s, l.v, r.v), r.p, Then(l, r))))
    ELSE l)

ParseTerm(toks, p) ==
  Let(ParseFactor(toks, p), LAMBDA l :
    IF l.st # "ok" THEN l ELSE TermRest(toks, l))

TermRest(toks, l0) ==
  Let(l0, LAMBDA l :
    IF IsOp(toks, l.p, {"*", "/", "//", "%"})
    THEN Let(ParseFactor(toks, l.p + 1), LAMBDA r :
         IF r.st # "ok" THEN r
         ELSE TermRest(toks, R("ok", BinOp(toks[l.p].s, l.v, r.v), r.p, Then(l, r))))
    ELSE l)

ParseFactor(toks, p) ==
  IF IsOp(toks, p, {"+", "-"})
  THEN Let(ParseFactor(toks, p + 1), LAMBDA r :
       IF r.st # "ok" THEN r ELSE R("ok", UnaryOp(toks[p].s, r.v), r.p, r.f))
  ELSE ParsePower(toks, p)

ParsePower(toks, p) ==
  Let(Trailers(toks, ParseAtom(toks, p)), LAMBDA b :
    IF b.st # "ok" THEN b
    ELSE IF IsOp(toks, b.p, {"**"})
    THEN Let(ParseFactor(toks, b.p + 1), LAMBDA e :
         IF e.st # "ok" THEN e ELSE R("ok", BinOp("**", b.v, e.v), e.p, Then(b, e)))
    ELSE b)

Trailers(toks, a0) ==
  Let(a0, LAMBDA a :
    IF a.st # "ok" THEN a
    ELSE IF IsOp(toks, a.p, {"("})
    THEN IF IsOp(toks, a.p + 1, {")"})
         THEN Trailers(toks, R("ok", Call(a.v, <<>>), a.p + 2, a.f))
         ELSE IF IsOp(toks, a.p + 1, {"*", "**"}) THEN UnmR
         ELSE Let(ParseArith(toks, a.p + 1), LAMBDA arg :
              IF arg.st # "ok" THEN arg
              ELSE IF ~IsOp(toks, arg.p, {")"}) THEN Syn
              ELSE Trailers(toks, R("ok", Call(a.v, <<arg.v>>), arg.p + 1, Then(a, arg))))
    ELSE IF IsOp(toks, a.p, {"."})
    THEN IF a.p + 1 <= Len(toks) /\ toks[a.p + 1].k = "name"
         THEN Trailers(toks, R("ok", GetAttr(a.v), a.p + 2, a.f))
         ELSE Syn
    ELSE a)

ParseAtom(toks, p) ==
  IF p > Len(toks) THEN Syn
  ELSE IF toks[p].k = "lit" THEN R("ok", toks[p].v, p + 1, {})
  ELSE IF toks[p].k = "name"
  THEN R("ok", Resolve(toks[p].s), p + 1, Foreign(toks[p].s))
  ELSE IF toks[p].s = "("
  THEN IF IsOp(toks, p + 1, {")"}) THEN R("ok", TupleV, p + 2, {})
       ELSE Let(ParseArith(toks, p + 1), LAMBDA e :
            IF e.st # "ok" THEN e
            ELSE IF ~IsOp(toks, e.p, {")"}) THEN Syn
            ELSE R("ok", e.v, e.p + 1, e.f))
  ELSE Syn

HasKeyword(toks, kws) == \E p \in 1..Len(toks) : toks[p].k = "name" /\ toks[p].s \in kws

\* line 35: eval(expr, {**SAFE_FUNCTIONS}, {}) after the screening passed
eval(expr) ==
  Let(Tokenize(expr), LAMBDA t :
    IF t.st # "ok" THEN R(t.st, Unm, 0, {})
    ELSE IF HasKeyword(t.toks, StatementKeywords) THEN Syn
    ELSE IF HasKeyword(t.toks, OperatorKeywords)
         THEN (IF Len(t.toks) = 1 THEN Syn ELSE UnmR)
    ELSE Let(ParseArith(t.toks, 1), LAMBDA r :
         IF r.st # "ok" THEN r
         ELSE IF r.p <= Len(t.toks) THEN Syn
         ELSE r))

\* lines 19-35: safe_eval.  res = "return" with the value v, res = "raise"
\* with the exception class exc raised by the screening (at = "screen") or
\* by eval (at = "eval"), or res = "unm" when the value is outside the
\* decimal arithmetic of the model.  f: names resolved outside SAFE_FUNCTIONS.
Outcome(res, exc, at, v, f) == [res |-> res, exc |-> exc, at |-> at, v |-> v, f |-> f]

\* lines 26-32: the screening raises ValueError
Screened(expr) == Outcome("raise", screen(expr), "screen", Unm, {})

\* line 35: what eval returns or raises
Evaluated(expr) ==
  Let(eval(expr), LAMBDA r :
    IF r.st = "syn" THEN Outcome("raise", "SyntaxError", "eval", Unm, {})
    ELSE IF r.st = "unm" \/ r.v.t = "unm" THEN Outcome("unm", "", "eval", Unm, r.f)
    ELSE IF r.v.t = "exc" THEN Outcome("raise", r.v.nm, "eval", Unm, r.f)
    ELSE Outcome("return", "", "eval", r.v, r.f))

safe_eval(expr) == IF screen(expr) # "ok" THEN Screened(expr) ELSE Evaluated(expr)

\* ------------------------------------------------------------- rendering
RECURSIVE NatStr(_)
NatStr(n) ==
  IF n < 10 THEN <<DigitChar(n)>> ELSE NatStr(n \div 10) \o <<DigitChar(n % 10)>>

RECURSIVE Zeros(_)
Zeros(k) == IF k <= 0 THEN <<>> ELSE <<"0">> \o Zeros(k - 1)

\* repr of a float: positional notation for a decimal exponent in -4..15,
\* scientific notation with a two-digit exponent otherwise
FloatStr(v) ==
  LET D == NatStr(Abs(v.n))
      nd == Len(D)
      dexp == nd - 1 - v.x
      sign == IF IsNeg(v) THEN <<"-">> ELSE <<>>
      body ==
        IF v.n = 0 THEN <<"0", ".", "0">>
        ELSE IF dexp < -4
        THEN <<D[1]>> \o (IF nd > 1 THEN <<".">> \o SubSeq(D, 2, nd) ELSE <<>>)
             \o <<"e", "-">> \o (IF -dexp < 10 THEN <<"0">> ELSE <<>>) \o NatStr(-dexp)
        ELSE IF v.x = 0 THEN D \o <<".", "0">>
        ELSE IF nd > v.x THEN SubSeq(D, 1, nd - v.x) \o <<".">> \o SubSeq(D, nd - v.x + 1, nd)
        ELSE <<"0", ".">> \o Zeros(v.x - nd) \o D
  IN sign \o body

\* the values str() is modelled for
Printable(v) == v.t \in {"int", "float", "tuple", "none", "ellipsis"}

\* str(v)
str(v) ==
  CASE v.t = "int" -> (IF v.n < 0 THEN <<"-">> ELSE <<>>) \o NatStr(Abs(v.n))
    [] v.t = "float" -> FloatStr(v)
    [] v.t = "tuple" -> <<"(", ")">>
    [] v.t = "none" -> <<"N", "o", "n", "e">>
    [] v.t = "ellipsis" -> <<"E", "l", "l", "i", "p", "s", "i", "s">>

\* ----------------------------------------------------------- toggle_sign
\* -?\d*\.?\d+ matched from index i up to the end of s (the $ of line 231)
MatchFrom(s, i) ==
  LET j == IF At(s, i, {"-"}) THEN i + 1 ELSE i
      a == SkipDigits(s, j)
      b == SkipDigits(s, a + 1)
  IN \/ a > j /\ a > Len(s)
     \/ At(s, a, {"."}) /\ b > a + 1 /\ b > Len(s)

\* line 231: re.search scans left to right and returns the first index at
\* which the pattern matches, 0 when there is none
search(s) ==
  LET starts == {i \in 1..Len(s) : MatchFrom(s, i)} IN
  IF starts = {} THEN 0 ELSE CHOOSE i \in starts : \A j \in starts : i <= j

\* toggle_sign without lines 238-239: the minus is always added
toggled_always_negates(s, start) ==
  SubSeq(s, 1, start - 1) \o <<"-">> \o SubSeq(s, start, Len(s))

\* lines 235-243: the buffer toggle_sign leaves, given the match at start
toggled(s, start) ==
  LET num == SubSeq(s, start, Len(s))
      new == IF num[1] = "-" THEN Tail(num) ELSE <<"-">> \o num
  IN SubSeq(s, 1, start - 1) \o new

\* lines 228-244: the buffer toggle_sign leaves
toggle(s) == IF search(s) = 0 THEN s ELSE toggled(s, search(s))

\* ------------------------------------------------------------------ state
VARIABLES
  expression,  \* self.expression, the buffer
  expr_var,    \* self.expr_var, the expression line of the display
  result_var,  \* self.result_var, the result line of the display
  key,         \* the argument of the last on_button_click call ("" before any)
  fault,       \* the last call had a statement of an edit operation raise
  raised,      \* the last call let an exception out of on_button_click
  calls,       \* the number of on_button_click calls so far
  text,        \* SpecEval: the argument of safe_eval
  pc,          \* SpecEval: the position inside safe_eval
  outcome      \* SpecEval: what safe_eval returned or raised

vars == <<expression, expr_var, result_var, key, fault, raised, calls, text, pc, outcome>>

store == <<expression, expr_var, result_var, key, fault, raised, calls>>
evaluator == <<text, pc, outcome>>

\* the keys of the calculator that append a character; the model presses
\* these nine
AppendKeys == {"0", "5", ".", "+", "-", "*", "/", "(", ")"}

ErrorText == <<"E", "r", "r", "o", "r">>

\* the classes `except Exception` (lines 193, 212, 222) catches
ExceptionClasses ==
  {"ValueError", "SyntaxError", "ZeroDivisionError", "NameError", "TypeError",
   "AttributeError", "MemoryError"}

\* `except ValueError` in place of `except Exception`
catches_only_ValueError(exc) == exc = "ValueError"

Catches(exc) == exc \in ExceptionClasses

\* str.strip() leaves nothing
Blank(s) == \A i \in 1..Len(s) : isspace(s[i])

\* float.is_integer
is_integer(v) == v.t = "float" /\ v.x = 0

\* lines 206-207 left out: the float is shown as it is
rendered_as_float(v) == v

\* val / 10 in place of val / 100
percent_by_ten(val) == BinOp("/", val, IntV(10))

\* line 188: val = val / 100
percent(val) == BinOp("/", val, IntV(100))

\* line 215 left out: the buffer survives a failed evaluation
equals_failed_keeps_buffer ==
  /\ result_var' = ErrorText
  /\ raised' = FALSE
  /\ UNCHANGED <<expression, expr_var>>

\* lines 212-215: the handler of the inner try of '='
equals_failed ==
  /\ result_var' = ErrorText
  /\ expression' = <<>>
  /\ raised' = FALSE
  /\ UNCHANGED expr_var

\* lines 193-194: the handler of the inner try of '%'
percent_failed ==
  /\ result_var' = ErrorText
  /\ raised' = FALSE
  /\ UNCHANGED <<expression, expr_var>>

\* line 174 left out: backspace does not refresh the expression line
backspace_without_refresh ==
  /\ expression' = SubSeq(expression, 1, Len(expression) - 1)
  /\ UNCHANGED expr_var

\* lines 173-174: drop the last character and show the buffer
backspace ==
  /\ expression' = SubSeq(expression, 1, Len(expression) - 1)
  /\ expr_var' = expression'

\* lines 206-207: drop .0 for integers
Rendered(v) == IF is_integer(v) THEN IntV(v.n) ELSE v

\* lines 222-226: the handler of the outer try; an exception it does not
\* catch leaves on_button_click
Outer(exc) ==
  IF Catches(exc)
  THEN /\ result_var' = ErrorText
       /\ expression' = <<>>
       /\ raised' = FALSE
       /\ UNCHANGED expr_var
  ELSE /\ raised' = TRUE
       /\ UNCHANGED <<expression, expr_var, result_var>>

\* a call on_button_click(k); f: a statement of its edit operation raises
Called(k, f) ==
  /\ calls < MaxCalls
  /\ calls' = calls + 1
  /\ key' = k
  /\ fault' = f
  /\ UNCHANGED evaluator

\* an edit operation whose first statement raises MemoryError
Faulted(k) ==
  /\ Called(k, TRUE)
  /\ Outer("MemoryError")

Init ==
  /\ expression = <<>>
  /\ expr_var = <<>>
  /\ result_var = <<>>
  /\ key = ""
  /\ fault = FALSE
  /\ raised = FALSE
  /\ calls = 0
  /\ text = <<>>
  /\ pc = "idle"
  /\ outcome = Outcome("none", "", "", Unm, {})

\* lines 165-169: key == 'AC'
ClearAll ==
  \/ /\ Called("AC", FALSE)
     /\ raised' = FALSE
     /\ expression' = <<>>
     /\ result_var' = <<>>
     /\ expr_var' = <<>>
  \/ Faulted("AC")

\* lines 171-175: key == 'C'
Backspace ==
  \/ /\ Called("C", FALSE)
     /\ raised' = FALSE
     /\ backspace
     /\ UNCHANGED result_var
  \/ Faulted("C")

\* lines 177-180 and 228-244: key == '+/-'
toggle_sign ==
  \/ /\ Called("+/-", FALSE)
     /\ raised' = FALSE
     /\ LET start == search(expression) IN
        IF start = 0
        THEN UNCHANGED <<expression, expr_var>>
        ELSE /\ expression' = toggled(expression, start)
             /\ expr_var' = expression'
     /\ UNCHANGED result_var
  \/ Faulted("+/-")

\* lines 182-195: key == '%'
Percent ==
  /\ Called("%", FALSE)
  /\ IF Blank(expression)
     THEN /\ raised' = FALSE
          /\ UNCHANGED <<expression, expr_var, result_var>>
     ELSE \E o \in {safe_eval(expression)} :
          \E val \in {IF o.res = "return" THEN percent(o.v) ELSE Unm} :
          LET exc == IF o.res = "raise" THEN o.exc ELSE val.nm
          IN /\ o.res # "unm"
             /\ o.res = "return" => val.t # "unm"
             /\ IF o.res = "return" /\ val.t # "exc"
                THEN /\ expression' = str(val)
                     /\ expr_var' = expression'
                     /\ result_var' = expression'
                     /\ raised' = FALSE
                ELSE IF Catches(exc) THEN percent_failed
                ELSE Outer(exc)

\* lines 197-216: key == '='
Equals ==
  /\ Called("=", FALSE)
  /\ IF Blank(expression)
     THEN /\ raised' = FALSE
          /\ UNCHANGED <<expression, expr_var, result_var>>
     ELSE \E o \in {safe_eval(expression)} :
          LET result == Rendered(o.v)
          IN /\ o.res # "unm"
             /\ o.res = "return" => Printable(o.v)
             /\ IF o.res = "return"
                THEN /\ result_var' = str(result)
                     /\ expr_var' = expression \o <<" ", "=">>
                     /\ expression' = str(result)
                     /\ raised' = FALSE
                ELSE IF Catches(o.exc) THEN equals_failed
                ELSE Outer(o.exc)

\* lines 218-220: any other key is appended
AppendKey ==
  \E k \in AppendKeys :
    /\ Len(expression) < MaxLen
    /\ \/ /\ Called(k, FALSE)
          /\ raised' = FALSE
          /\ expression' = expression \o <<k>>
          /\ expr_var' = expression'
          /\ UNCHANGED result_var
       \/ Faulted(k)

\* lines 163-226: on_button_click, one disjunct per branch on key
Next ==
  \/ ClearAll
  \/ Backspace
  \/ toggle_sign
  \/ Percent
  \/ Equals
  \/ AppendKey

Spec == Init /\ [][Next]_vars

\* ------------------------------------------------- safe_eval on its own
\* the characters the free-form arguments of safe_eval are built from
EvalAlphabet ==
  {"0", "1", "5", ".", "+", "-", "*", "/", "%", "(", ")", " ", "\t",
   "e", "i", "n", "t", "q", "x", ",", "$"}

RECURSIVE Strings(_)
Strings(n) ==
  IF n = 0 THEN {<<>>}
  ELSE LET S == Strings(n - 1) IN S \cup {Append(t, c) : t \in S, c \in EvalAlphabet}

\* one well-formed use of each name of SAFE_FUNCTIONS
AllowListProbes ==
  {<<"s", "q", "r", "t", "(", "1", "6", ")">>,
   <<"s", "i", "n", "(", "0", ")">>,
   <<"c", "o", "s", "(", "0", ")">>,
   <<"t", "a", "n", "(", "0", ")">>,
   <<"p", "i">>,
   <<"e">>,
   <<"p", "o", "w", "(", "2", ",", "1", "0", ")">>,
   <<"a", "b", "s", "(", "0", "-", "5", ")">>}

\* uses of built-in names, arithmetic, and whitespace inside an expression
OtherProbes ==
  {<<"i", "n", "t", "(", "1", ")">>,
   <<"p", "r", "i", "n", "t", "(", "1", ")">>,
   <<"o", "p", "e", "n">>,
   <<"n", "a", "n">>,
   <<"2", "+", "3", "*", "4">>,
   <<"(", "2", "+", "3", ")", "*", "4">>,
   <<"1", "0", "/", "0">>,
   <<"1", "\t", "+", "2">>,
   <<"1", " ", "+", "2">>}

EvalInputs == Strings(MaxEvalLen) \cup AllowListProbes \cup OtherProbes

InitEval ==
  /\ expression = <<>>
  /\ expr_var = <<>>
  /\ result_var = <<>>
  /\ key = ""
  /\ fault = FALSE
  /\ raised = FALSE
  /\ calls = 0
  /\ text \in {t \in EvalInputs : safe_eval(t).res # "unm"}
  /\ pc = "call"
  /\ outcome = Outcome("none", "", "", Unm, {})

\* lines 25-32: the loop over the characters of expr
screening ==
  /\ pc = "call"
  /\ IF screen(text) # "ok"
     THEN /\ outcome' = Screened(text)
          /\ pc' = "done"
     ELSE /\ pc' = "eval"
          /\ UNCHANGED outcome
  /\ UNCHANGED <<store, text>>

\* line 35: return eval(expr, {**SAFE_FUNCTIONS}, {})
evaluation ==
  /\ pc = "eval"
  /\ outcome' = Evaluated(text)
  /\ pc' = "done"
  /\ UNCHANGED <<store, text>>

NextEval == screening \/ evaluation

SpecEval == InitEval /\ [][NextEval]_vars

\* ================================================================ claims
Suffix(s, i) == SubSeq(s, i, Len(s))

AllDigits(s) == \A i \in 1..Len(s) : s[i] \in Digit

Unsigned(l) == IF l # <<>> /\ l[1] = "-" THEN Tail(l) ELSE l

\* l is -?digits(.digits)? : the integer digits are required
SignedDecimal(l) ==
  LET b == Unsigned(l) IN
  \E k \in 1..Len(b) :
    /\ AllDigits(SubSeq(b, 1, k))
    /\ \/ k = Len(b)
       \/ /\ k + 2 <= Len(b)
          /\ b[k + 1] = "."
          /\ AllDigits(Suffix(b, k + 2))

\* l is -?digits?(.)?digits : the integer digits and the point are optional
SignedDecimalOrFraction(l) ==
  LET b == Unsigned(l) IN
  \E k \in 0..Len(b) :
    /\ AllDigits(SubSeq(b, 1, k))
    /\ \/ k = Len(b) /\ k > 0
       \/ /\ k + 2 <= Len(b)
          /\ b[k + 1] = "."
          /\ AllDigits(Suffix(b, k + 2))

\* the start of the longest suffix of s that is a literal, 0 when none is
LiteralStart(s, IsLiteral(_)) ==
  LET starts == {i \in 1..Len(s) : IsLiteral(Suffix(s, i))} IN
  IF starts = {} THEN 0 ELSE CHOOSE i \in starts : \A j \in starts : i <= j

\* the literal l with its sign flipped
Flipped(l) == IF l[1] = "-" THEN Tail(l) ELSE <<"-">> \o l

\* what the toggle-sign step must do when the trailing literal starts at i
SuffixFlipped(i) ==
  /\ result_var' = result_var
  /\ IF i = 0
     THEN UNCHANGED <<expression, expr_var>>
     ELSE expression' = SubSeq(expression, 1, i - 1) \o Flipped(Suffix(expression, i))

\* C1: when the evaluation of a non-empty buffer fails, '=' shows Error and
\* empties the buffer, whereas '%' shows Error and leaves the buffer as it was
C1_FailureClearsOnEqualsKeepsOnPercent ==
  [][(key' \in {"=", "%"} /\ expression # <<>> /\ safe_eval(expression).res = "raise")
     => /\ result_var' = ErrorText
        /\ key' = "=" => expression' = <<>>
        /\ key' = "%" => expression' = expression]_vars

C1_Witness ==
  /\ key = "%"
  /\ expression = <<"5", "/", "0">>
  /\ result_var = ErrorText

\* C2: no name other than the eight of SAFE_FUNCTIONS is resolved: a string
\* that refers to any other name fails and nothing of it is executed
C2_OnlyAllowListedNamesResolve ==
  pc = "done" => outcome.f = {}

\* C3: a toggle-sign step followed by a second toggle gives back the buffer
\* the first one started from, whatever the buffer (5-3 included)
C3_ToggleTwiceRestores ==
  [][(key' = "+/-" /\ ~fault') => toggle(expression') = expression]_vars

\* C4: a well-formed use of each of sqrt, sin, cos, tan, pi, e, pow and abs
\* evaluates successfully to a number
C4_AllowListedNamesEvaluate ==
  (pc = "done" /\ text \in AllowListProbes)
    => (outcome.res = "return" /\ outcome.v.t \in {"int", "float", "const"})

\* the letters of sqrt, sin, cos, tan, pi, e, pow, abs
NameLetters == {"s", "q", "r", "t", "i", "n", "c", "o", "a", "p", "e", "w", "b"}

AcceptedAlphabet ==
  Digit \cup {"+", "-", "*", "/", "(", ")", ".", " ", "%"} \cup NameLetters

Whitespace == {" ", "\t", "\n", "\r", "\f"}

\* safe_eval stops in the screening loop with the invalid-character ValueError
InvalidCharacter ==
  /\ pc = "done"
  /\ outcome.res = "raise"
  /\ outcome.exc = "ValueError"
  /\ outcome.at = "screen"

\* C5 as stated: a string with a character outside the accepted alphabet
\* (digits, + - * / ( ) . space %, the letters of the eight names) fails with
\* the invalid-character error; a tab or a newline is such a character
C5_OutsideAlphabetRejected ==
  (pc # "call" /\ \E i \in 1..Len(text) : text[i] \notin AcceptedAlphabet)
    => InvalidCharacter

\* C5: a string with a character that is neither whitespace nor in the
\* accepted alphabet fails with the invalid-character error before eval runs
C5_OutsideAlphabetOrWhitespaceRejected ==
  (pc # "call" /\ \E i \in 1..Len(text) : text[i] \notin AcceptedAlphabet \cup Whitespace)
    => InvalidCharacter

C5_Witness ==
  /\ InvalidCharacter
  /\ text = <<"1", "$">>

\* C6: no call lets an exception out of on_button_click, and a failure inside
\* an edit operation leaves Error on the result line and an empty buffer
C6_NothingEscapesTheHandler ==
  /\ ~raised
  /\ fault => (result_var = ErrorText /\ expression = <<>>)

C6_Witness ==
  /\ fault
  /\ key = "C"
  /\ expr_var # <<>>
  /\ result_var = ErrorText
  /\ expression = <<>>

\* C7: '=' on a non-empty buffer B that evaluates to a value shows the value
\* on the result line (a float with no fraction as an integer), shows B
\* followed by " =" on the expression line and makes the shown value the
\* buffer, so that the next appended token follows the shown value
C7_EqualsShowsAndKeepsTheValue ==
  [][/\ (key' = "=" /\ expression # <<>> /\ safe_eval(expression).res = "return")
        => LET v == safe_eval(expression).v
               shown == IF v.t = "float" /\ v.x = 0 THEN str(IntV(v.n)) ELSE str(v)
           IN /\ result_var' = shown
              /\ expr_var' = expression \o <<" ", "=">>
              /\ expression' = shown
     /\ (key = "=" /\ expression # <<>> /\ key' \in AppendKeys /\ ~fault')
        => expression' = result_var \o <<key'>>]_vars

C7_Witness ==
  /\ key = "="
  /\ expr_var = <<"5", ".", " ", "=">>
  /\ result_var = <<"5">>
  /\ expression = <<"5">>

\* C8 as stated: backspace on an empty buffer changes neither the buffer nor
\* the expression line nor the result line, however the buffer was emptied;
\* on a non-empty buffer it removes the last character; AC empties all three
C8_BackspaceOnEmptyChangesNothing ==
  [][/\ (key' = "C" /\ ~fault' /\ ~fault /\ expression = <<>>)
        => UNCHANGED <<expression, expr_var, result_var>>
     /\ (key' = "C" /\ ~fault' /\ expression # <<>>)
        => expression' = SubSeq(expression, 1, Len(expression) - 1)
     /\ (key' = "AC" /\ ~fault')
        => (expression' = <<>> /\ expr_var' = <<>> /\ result_var' = <<>>)]_vars

\* C8: backspace on an empty buffer leaves the buffer empty and the result
\* line as it was and shows the empty buffer on the expression line; on a
\* non-empty buffer it removes the last character; AC empties all three
C8_BackspaceOnEmptyClearsExpressionLine ==
  [][/\ (key' = "C" /\ ~fault' /\ expression = <<>>)
        => (expression' = <<>> /\ expr_var' = <<>> /\ result_var' = result_var)
     /\ (key' = "C" /\ ~fault' /\ expression # <<>>)
        => /\ expression' = SubSeq(expression, 1, Len(expression) - 1)
           /\ expr_var' = expression'
           /\ result_var' = result_var
     /\ (key' = "AC" /\ ~fault')
        => (expression' = <<>> /\ expr_var' = <<>> /\ result_var' = <<>>)]_vars

C8_Witness ==
  /\ key = "C"
  /\ ~fault
  /\ expression = <<>>
  /\ expr_var = <<>>
  /\ result_var = ErrorText

\* w is one hundredth of v: w.n / 10^w.x = v.n / 10^(v.x + 2)
Hundredth(w, v) ==
  LET m == IF w.x < v.x + 2 THEN w.x ELSE v.x + 2
  IN w.n * Pow10(v.x + 2 - m) = v.n * Pow10(w.x - m)

\* C9: '%' on a non-empty buffer that evaluates to a number v puts the
\* decimal string of v/100 in the buffer and on both display lines; on a
\* blank buffer it changes nothing
C9_PercentDividesByHundred ==
  [][key' = "%"
     => IF Blank(expression)
        THEN UNCHANGED <<expression, expr_var, result_var>>
        ELSE (safe_eval(expression).res = "return" /\ IsNum(safe_eval(expression).v))
             => /\ safe_eval(expression').res = "return"
                /\ safe_eval(expression').v.t = "float"
                /\ Hundredth(safe_eval(expression').v, safe_eval(expression).v)
                /\ expr_var' = expression'
                /\ result_var' = expression']_vars

C9_Witness ==
  /\ key = "%"
  /\ expression = <<"0", ".", "5">>
  /\ expr_var = expression
  /\ result_var = expression

\* C10 as stated: toggle-sign flips the sign of the longest suffix of the
\* buffer that is -?digits(.digits)? and leaves the rest of the buffer and
\* the result line alone; with no such suffix nothing changes
C10_FlipsTrailingSignedDecimal ==
  [][(key' = "+/-" /\ ~fault')
     => SuffixFlipped(LiteralStart(expression, SignedDecimal))]_vars

\* C10: toggle-sign flips the sign of the longest suffix of the buffer that
\* is -?digits?(.)?digits, so .5 is one literal, and leaves the rest of the
\* buffer and the result line alone; with no such suffix nothing changes
C10_FlipsTrailingSignedDecimalOrFraction ==
  [][(key' = "+/-" /\ ~fault')
     => SuffixFlipped(LiteralStart(expression, SignedDecimalOrFraction))]_vars

C10_Witness ==
  /\ key = "+/-"
  /\ ~fault
  /\ expression = <<"-", ".", "5">>
  /\ expr_var = expression
====
